---- MODULE Spec2Model ----
(***************************************************************************)
(* Flood & Weather Insights backend (src/main.py).                         *)
(*                                                                         *)
(* Numbers.  Python floats are modelled as fixed-point integers counted in *)
(* thousandths: 50.0 mm is 50000, 0.004 mm is 4, -999 is -999000.  round() *)
(* to 2 (1) decimals therefore rounds to a multiple of 10 (100).  Binary   *)
(* representation error of floats is not modelled.                         *)
(*                                                                         *)
(* Text.  The Hindi and Marathi clauses are written as ASCII stand-ins     *)
(* tagged [hi] / [mr]; the em dash of the English clauses is written "-".  *)
(***************************************************************************)
EXTENDS Integers, Sequences, FiniteSets, TLC

VARIABLES
    call,       \* SpecPure: the frame of the last pure helper call (arguments and return value)
    pc,         \* per request: "idle", "geocode" (awaiting line 28), "weather" (awaiting line 53), "done"
    endpoint,   \* per request: the route that was called
    query,      \* per request: the query parameters, a function with domain {} or {"city"}
    r_geo,      \* per request: geocode_city's local r (the geocoding provider's answer)
    g,          \* per request: get_full_forecast's local g (the resolved coordinate)
    r_wx,       \* per request: fetch_weather's local r (the forecast provider's answer)
    geoCalls,   \* per request: outbound GETs sent to the geocoding provider
    wxCalls,    \* per request: outbound GETs sent to the forecast provider
    steps,      \* per request: the components get_full_forecast has invoked, in order
    response    \* per request: what the HTTP boundary answered

vars == <<call, pc, endpoint, query, r_geo, g, r_wx, geoCalls, wxCalls, steps, response>>

None == [none |-> TRUE]

(***************************************************************************)
(* Python built-ins used by the helpers                                    *)
(***************************************************************************)
RECURSIVE sum(_)
sum(values) == IF values = <<>> THEN 0 ELSE Head(values) + sum(Tail(values))

RECURSIVE max(_)
max(values) ==
    IF Len(values) = 1 THEN Head(values)
    ELSE LET m == max(Tail(values)) IN IF Head(values) >= m THEN Head(values) ELSE m

\* round(x, ndigits) for ndigits in {1, 2}: nearest multiple of the unit, ties to even
round(x, ndigits) ==
    LET unit == IF ndigits = 2 THEN 10 ELSE 100
        q == x \div unit
        rem == x % unit
        up == \/ 2 * rem > unit
              \/ 2 * rem = unit /\ q % 2 = 1
    IN  IF up THEN (q + 1) * unit ELSE q * unit

\* values[start:] with Python's index normalisation (a negative start counts from the end)
SliceFrom(values, start) ==
    LET n == Len(values)
        lo == IF start < 0 THEN (IF n + start < 0 THEN 0 ELSE n + start)
              ELSE (IF start > n THEN n ELSE start)
    IN  SubSeq(values, lo + 1, n)

\* dict.get(key, default)
Get(d, key, default) == IF key \in DOMAIN d THEN d[key] ELSE default

\* sep.join(parts)
RECURSIVE JoinWith(_, _)
JoinWith(sep, parts) ==
    IF parts = <<>> THEN ""
    ELSE IF Len(parts) = 1 THEN Head(parts)
    ELSE Head(parts) \o sep \o JoinWith(sep, Tail(parts))

\* " ".join(parts)
Join(parts) == JoinWith(" ", parts)

(***************************************************************************)
(* Risk Aggregator                                                         *)
(***************************************************************************)
compute_rolling_whole(values, hours) ==
    IF values = <<>> THEN 0 ELSE round(sum(values), 2)

compute_rolling(values, hours) ==
    IF values = <<>> THEN 0
    ELSE IF Len(values) < hours THEN round(sum(values), 2)
    ELSE round(sum(SliceFrom(values, -hours)), 2)

\* statistics.pstdev is kept as an unevaluated term: no 32-bit integer holds the
\* squares it needs, and nothing below depends on its value for a non-empty list.
pstdev(values) == [tag |-> "pstdev", of |-> values]

compute_std(values) ==
    IF values = <<>> THEN [tag |-> "float", of |-> 0] ELSE pstdev(values)

\* round(std_precip, 2) at line 177
round_std(std) ==
    IF std.tag = "float" THEN [tag |-> "float", of |-> round(std.of, 2)]
    ELSE [tag |-> "round2", of |-> std]

flood_threshold == 50000

summarize_risks_exclusive(rolling_24, temps_24, winds_24) ==
    LET max_temp == IF temps_24 # <<>> THEN max(temps_24) ELSE -999000
        max_wind == IF winds_24 # <<>> THEN max(winds_24) ELSE 0
        Lv(x, high, medium) ==
            IF x > high THEN "High" ELSE IF x > medium THEN "Medium" ELSE "Low"
    IN  [flood |-> Lv(rolling_24, flood_threshold, (flood_threshold * 6) \div 10),
         heat |-> Lv(max_temp, 40000, 35000),
         storm |-> Lv(max_wind, 15000, 8000),
         max_temp |-> round(max_temp, 1),
         max_wind |-> round(max_wind, 1)]

summarize_risks_zero_default(rolling_24, temps_24, winds_24) ==
    LET max_temp == IF temps_24 # <<>> THEN max(temps_24) ELSE 0
        max_wind == IF winds_24 # <<>> THEN max(winds_24) ELSE 0
        Lv(x, high, medium) ==
            IF x >= high THEN "High" ELSE IF x >= medium THEN "Medium" ELSE "Low"
    IN  [flood |-> Lv(rolling_24, flood_threshold, (flood_threshold * 6) \div 10),
         heat |-> Lv(max_temp, 40000, 35000),
         storm |-> Lv(max_wind, 15000, 8000),
         max_temp |-> round(max_temp, 1),
         max_wind |-> round(max_wind, 1)]

summarize_risks(rolling_24, temps_24, winds_24) ==
    LET flood == IF rolling_24 >= flood_threshold THEN "High"
                 ELSE IF rolling_24 >= (flood_threshold * 6) \div 10 THEN "Medium"
                 ELSE "Low"
        max_temp == IF temps_24 # <<>> THEN max(temps_24) ELSE -999000
        heat == IF max_temp >= 40000 THEN "High"
                ELSE IF max_temp >= 35000 THEN "Medium"
                ELSE "Low"
        max_wind == IF winds_24 # <<>> THEN max(winds_24) ELSE 0
        storm == IF max_wind >= 15000 THEN "High"
                 ELSE IF max_wind >= 8000 THEN "Medium"
                 ELSE "Low"
    IN  [flood |-> flood, heat |-> heat, storm |-> storm,
         max_temp |-> round(max_temp, 1), max_wind |-> round(max_wind, 1)]

(***************************************************************************)
(* Advisory Composer                                                       *)
(***************************************************************************)
EnFloodHigh == "High flood risk - move livestock/equipment to higher ground."
HiFloodHigh == "[hi] High flood risk - move livestock and equipment to a safe place."
MrFloodHigh == "[mr] High flood risk - move animals and equipment to higher ground."
EnFloodMedium == "Medium flood risk - inspect low-lying fields and secure valuables."
HiFloodMedium == "[hi] Medium flood risk - check low-lying areas and keep belongings safe."
MrFloodMedium == "[mr] Medium flood risk - inspect low-lying fields and keep things safe."
EnFloodLow == "Flood risk is low - normal conditions."
EnHeatHigh == "High heat - avoid field work during midday; stay hydrated."
HiHeatHigh == "[hi] High temperature - do not do field work at midday; drink water."
MrHeatHigh == "[mr] High heat - avoid work at midday; drink water."
EnHeatMedium == "Moderate heat - take precautions during hot hours."
HiHeatMedium == "[hi] Moderate temperature - take care during hot hours."
MrHeatMedium == "[mr] Moderate heat - take precautions in hot hours."
EnStormHigh == "High wind risk - secure shade nets and loose equipment."
HiStormHigh == "[hi] High wind risk - keep nets and loose equipment secure."
MrStormHigh == "[mr] High wind risk - keep nets and loose equipment secure."
EnStormMedium == "Moderate winds - be cautious while working at heights."

\* the three lists after the flood, heat and storm blocks (lines 107-136)
advisory_lists_per_clause(risks) ==
    LET f == IF risks.flood = "High" THEN [en |-> <<EnFloodHigh>>, hi |-> <<HiFloodHigh>>, mr |-> <<MrFloodHigh>>]
             ELSE IF risks.flood = "Medium" THEN [en |-> <<EnFloodMedium>>, hi |-> <<HiFloodMedium>>, mr |-> <<MrFloodMedium>>]
             ELSE [en |-> <<EnFloodLow>>, hi |-> <<EnFloodLow>>, mr |-> <<EnFloodLow>>]
        h == IF risks.heat = "High" THEN [en |-> <<EnHeatHigh>>, hi |-> <<HiHeatHigh>>, mr |-> <<MrHeatHigh>>]
             ELSE IF risks.heat = "Medium" THEN [en |-> <<EnHeatMedium>>, hi |-> <<HiHeatMedium>>, mr |-> <<MrHeatMedium>>]
             ELSE [en |-> <<>>, hi |-> <<>>, mr |-> <<>>]
        s == IF risks.storm = "High" THEN [en |-> <<EnStormHigh>>, hi |-> <<HiStormHigh>>, mr |-> <<MrStormHigh>>]
             ELSE IF risks.storm = "Medium" THEN [en |-> <<EnStormMedium>>, hi |-> <<EnStormMedium>>, mr |-> <<EnStormMedium>>]
             ELSE [en |-> <<>>, hi |-> <<>>, mr |-> <<>>]
    IN  [en |-> f.en \o h.en \o s.en, hi |-> f.hi \o h.hi \o s.hi, mr |-> f.mr \o h.mr \o s.mr]

advisory_lists(risks) ==
    LET f == IF risks.flood = "High" THEN [en |-> <<EnFloodHigh>>, hi |-> <<HiFloodHigh>>, mr |-> <<MrFloodHigh>>]
             ELSE IF risks.flood = "Medium" THEN [en |-> <<EnFloodMedium>>, hi |-> <<HiFloodMedium>>, mr |-> <<MrFloodMedium>>]
             ELSE [en |-> <<EnFloodLow>>, hi |-> <<>>, mr |-> <<>>]
        h == IF risks.heat = "High" THEN [en |-> <<EnHeatHigh>>, hi |-> <<HiHeatHigh>>, mr |-> <<MrHeatHigh>>]
             ELSE IF risks.heat = "Medium" THEN [en |-> <<EnHeatMedium>>, hi |-> <<HiHeatMedium>>, mr |-> <<MrHeatMedium>>]
             ELSE [en |-> <<>>, hi |-> <<>>, mr |-> <<>>]
        s == IF risks.storm = "High" THEN [en |-> <<EnStormHigh>>, hi |-> <<HiStormHigh>>, mr |-> <<MrStormHigh>>]
             ELSE IF risks.storm = "Medium" THEN [en |-> <<EnStormMedium>>, hi |-> <<>>, mr |-> <<>>]
             ELSE [en |-> <<>>, hi |-> <<>>, mr |-> <<>>]
    IN  [en |-> f.en \o h.en \o s.en, hi |-> f.hi \o h.hi \o s.hi, mr |-> f.mr \o h.mr \o s.mr]

build_bilingual_advisories(risks) ==
    LET l == advisory_lists(risks)
    IN  [advisory_en |-> Join(l.en),
         advisory_hi |-> IF l.hi # <<>> THEN Join(l.hi) ELSE Join(l.en),
         advisory_mr |-> IF l.mr # <<>> THEN Join(l.mr) ELSE Join(l.en)]

(***************************************************************************)
(* External providers: what one GET can come back with                     *)
(***************************************************************************)
EmptyDict == <<>>

Timeout == [kind |-> "timeout"]
HttpResponse(status_code, json) == [kind |-> "response", status_code |-> status_code, json |-> json]

HTTPException(status_code, detail) ==
    [type |-> "HTTPException", status_code |-> status_code, detail |-> detail]
TimeoutException == [type |-> "httpx.TimeoutException"]
RequestValidationError == [type |-> "RequestValidationError"]
ValueError == [type |-> "ValueError"]

Raise(exc) == [ok |-> FALSE, exc |-> exc]
Return(value) == [ok |-> TRUE, value |-> value]

(***************************************************************************)
(* Location Resolver and Forecast Fetcher: from the provider's answer on   *)
(***************************************************************************)
geocode_city_swallow(resp) ==
    IF resp.kind = "response" /\ resp.status_code = 200
            /\ "results" \in DOMAIN resp.json /\ resp.json.results # <<>>
    THEN LET res == resp.json.results[1]
         IN  Return([name |-> res.name, country |-> res.country,
                     lat |-> res.latitude, lon |-> res.longitude])
    ELSE Return([name |-> "", country |-> "", lat |-> 0, lon |-> 0])

geocode_city_outcome(resp) ==
    IF resp.kind = "timeout" THEN Raise(TimeoutException)
    ELSE IF resp.status_code # 200 THEN Raise(HTTPException(502, "Geocoding API error"))
    ELSE IF "results" \notin DOMAIN resp.json \/ resp.json.results = <<>>
         THEN Raise(HTTPException(404, "Location not found"))
    ELSE LET res == resp.json.results[1]
         IN  Return([name |-> res.name, country |-> res.country,
                     lat |-> res.latitude, lon |-> res.longitude])

fetch_weather_silent_timeout(resp) ==
    IF resp.kind = "timeout" THEN Return(EmptyDict)
    ELSE IF resp.status_code # 200 THEN Raise(HTTPException(502, "Forecast API error"))
    ELSE Return(resp.json)

fetch_weather_outcome(resp) ==
    IF resp.kind = "timeout" THEN Raise(TimeoutException)
    ELSE IF resp.status_code # 200 THEN Raise(HTTPException(502, "Forecast API error"))
    ELSE Return(resp.json)

(***************************************************************************)
(* Forecast Orchestrator: get_full_forecast after both awaits              *)
(***************************************************************************)
float(x) == x       \* a JSON number is already counted in thousandths

Floats(xs) == [i \in 1..Len(xs) |-> float(xs[i])]

\* temps[-24:] if len(temps) >= 24 else temps
Window24_whole(xs) == xs

Window24(xs) == IF Len(xs) >= 24 THEN SliceFrom(xs, -24) ELSE xs

forecast_payload(g_, w) ==
    LET lat == g_.lat
        lon == g_.lon
        pretty == g_.name \o ", " \o g_.country
        hourly == Get(w, "hourly", EmptyDict)
        times == Get(hourly, "time", <<>>)
        temps == Floats(Get(hourly, "temperature_2m", <<>>))
        precip == Floats(Get(hourly, "precipitation", <<>>))
        humidity == Floats(Get(hourly, "relativehumidity_2m", <<>>))
        wind == Floats(Get(hourly, "windspeed_10m", <<>>))
        rolling_24 == compute_rolling(precip, 24)
        rolling_72 == compute_rolling(precip, 72)
        std_precip == compute_std(precip)
        temps_24 == Window24(temps)
        winds_24 == Window24(wind)
        risk_summary == summarize_risks(rolling_24, temps_24, winds_24)
        advisories == build_bilingual_advisories(risk_summary)
    IN  [location |-> pretty, lat |-> lat, lon |-> lon,
         times |-> times, temperature |-> temps, precip |-> precip,
         humidity |-> humidity, wind |-> wind,
         rolling_24 |-> rolling_24, rolling_72 |-> rolling_72,
         precip_std |-> round_std(std_precip),
         risk |-> risk_summary,
         advisory_en |-> advisories.advisory_en,
         advisory_hi |-> advisories.advisory_hi,
         advisory_mr |-> advisories.advisory_mr]

\* the helpers get_full_forecast calls, in call order
ResolveSteps == <<"geocode_city">>
FetchSteps == <<"fetch_weather">>
AggregateSteps == <<"compute_rolling", "compute_rolling", "compute_std", "summarize_risks">>
ComposeSteps == <<"build_bilingual_advisories">>

(***************************************************************************)
(* HTTP boundary                                                           *)
(***************************************************************************)
\* FastAPI: an HTTPException carries its status, a missing required query
\* parameter is answered 422, any other exception leaving a handler 500
StatusOf(exc) ==
    IF exc.type = "HTTPException" THEN exc.status_code
    ELSE IF exc.type = "RequestValidationError" THEN 422
    ELSE 500

ErrorResponse(exc) == [status |-> StatusOf(exc), exc |-> exc, body |-> None]
OkResponse(body) == [status |-> 200, exc |-> None, body |-> body]

\* pd.DataFrame({...}) of lines 198-204: the columns must have one length
DataFrame(data) ==
    LET cols == [time |-> data.times, temperature_C |-> data.temperature,
                 precip_mm |-> data.precip, humidity |-> data.humidity,
                 wind_m_s |-> data.wind]
    IN  IF \A a, b \in DOMAIN cols : Len(cols[a]) = Len(cols[b])
        THEN Return(cols) ELSE Raise(ValueError)

\* lines 198-207 of export_csv, once get_full_forecast has returned data
export_csv_tail(city, data) ==
    LET df == DataFrame(data)
    IN  IF df.ok
        THEN OkResponse([filename |-> JoinWith("_", city) \o "_weather.csv",
                         csv |-> df.value])
        ELSE ErrorResponse(df.exc)

(***************************************************************************)
(* SpecPure: the pure helpers applied to inputs drawn from bounded sets    *)
(***************************************************************************)
MaxLen == 4            \* longest precipitation list handed to compute_rolling
MaxWindow == 5         \* largest window (hours) handed to compute_rolling
MaxRiskLen == 2        \* longest temperature / wind window handed to summarize_risks

SeqsUpTo(S, n) == UNION {[1..k -> S] : k \in 0..n}

PrecipVals == {0, 4, 1255, 24996}
RollVals == {0, 29999, 30000, 49999, 50000, 75000}
TempVals == {34999, 35000, 39999, 40000}
WindVals == {7999, 8000, 14999, 15000}

NoCall == [fn |-> "none"]

call_compute_rolling(values, hours) ==
    /\ call' = [fn |-> "compute_rolling", values |-> values, hours |-> hours,
                ret |-> compute_rolling(values, hours)]
    /\ UNCHANGED <<pc, endpoint, query, r_geo, g, r_wx, geoCalls, wxCalls, steps, response>>

call_compute_std(values) ==
    /\ call' = [fn |-> "compute_std", values |-> values, ret |-> compute_std(values)]
    /\ UNCHANGED <<pc, endpoint, query, r_geo, g, r_wx, geoCalls, wxCalls, steps, response>>

call_summarize_risks(rolling_24, temps_24, winds_24) ==
    /\ call' = [fn |-> "summarize_risks", rolling_24 |-> rolling_24,
                temps_24 |-> temps_24, winds_24 |-> winds_24,
                ret |-> summarize_risks(rolling_24, temps_24, winds_24)]
    /\ UNCHANGED <<pc, endpoint, query, r_geo, g, r_wx, geoCalls, wxCalls, steps, response>>

\* the composer is handed what the classifier returned, as at lines 164-165
call_build_bilingual_advisories ==
    /\ call.fn = "summarize_risks"
    /\ call' = [fn |-> "build_bilingual_advisories", risks |-> call.ret,
                lists |-> advisory_lists(call.ret),
                ret |-> build_bilingual_advisories(call.ret)]
    /\ UNCHANGED <<pc, endpoint, query, r_geo, g, r_wx, geoCalls, wxCalls, steps, response>>

(***************************************************************************)
(* Request chains: one per incoming HTTP request                           *)
(***************************************************************************)
NumReq == 2            \* concurrent requests
MaxSmallHours == 1     \* Spec: longest hourly series the forecast provider returns
MaxHours == 74         \* SpecData: longest hourly series the forecast provider returns

Reqs == 1..NumReq

\* a city name is the tuple of its space-separated words; <<>> is the empty string
Cities == {<<>>, <<"New", "Delhi">>}
Queries == {EmptyDict} \cup {[city |-> c] : c \in Cities}

NewDelhi == [name |-> "New Delhi", country |-> "India", latitude |-> 28614, longitude |-> 77209]

GeoResponses ==
    {Timeout, HttpResponse(500, EmptyDict), HttpResponse(200, EmptyDict),
     HttpResponse(200, [results |-> <<>>]), HttpResponse(200, [results |-> <<NewDelhi>>])}

HourlyKeys == {"time", "temperature_2m", "precipitation", "relativehumidity_2m", "windspeed_10m"}

\* n hourly values: shape[1] in the oldest hour, shape[2] in hour p, shape[3] elsewhere
Series(n, p, shape) ==
    [i \in 1..n |-> IF i = p THEN shape[2] ELSE IF i = 1 THEN shape[1] ELSE shape[3]]

Hourly(n, p, P, T, W) ==
    [time |-> [i \in 1..n |-> i],
     temperature_2m |-> Series(n, p, T),
     precipitation |-> Series(n, p, P),
     relativehumidity_2m |-> [i \in 1..n |-> 60000],
     windspeed_10m |-> Series(n, p, W)]

Without(hourly, key) == [k \in (DOMAIN hourly) \ {key} |-> hourly[k]]

SmallForecasts ==
    {[hourly |-> Hourly(n, n, P, <<41000, 41000, 41000>>, <<5000, 5000, 5000>>)] :
        n \in 0..MaxSmallHours, P \in {<<0, 0, 0>>, <<52000, 52000, 52000>>}}
    \cup {[hourly |-> Without(Hourly(MaxSmallHours, 1, <<0, 0, 0>>, <<20000, 20000, 20000>>,
                                      <<5000, 5000, 5000>>), "time")]}
    \cup {EmptyDict}

PrecipShapes == {<<5000, 55000, 0>>, <<2083, 2087, 2083>>}
TempShapes == {<<41000, 36000, 20000>>, <<20000, 41000, 20000>>}
WindShapes == {<<16000, 5000, 5000>>, <<5000, 5000, 5000>>}

\* <<n, p>>: a series of n hours with its marked hour p (p = 1 stands for none when n = 0)
Marked == {np \in (0..MaxHours) \X (1..MaxHours) : np[2] <= np[1] \/ (np[1] = 0 /\ np[2] = 1)}

LongForecasts ==
    {[hourly |-> Hourly(np[1], np[2], P, T, W)] :
        np \in Marked, P \in PrecipShapes, T \in TempShapes, W \in WindShapes}
    \cup {[hourly |-> Without(Hourly(n, 1, <<5000, 55000, 0>>, <<20000, 41000, 20000>>,
                                      <<5000, 5000, 5000>>), key)] :
        n \in 0..MaxHours, key \in {"temperature_2m", "precipitation", "windspeed_10m"}}

WeatherResponses(forecasts) ==
    {Timeout, HttpResponse(503, EmptyDict)} \cup {HttpResponse(200, w) : w \in forecasts}

Init ==
    /\ call = NoCall
    /\ pc = [r \in Reqs |-> "idle"]
    /\ endpoint = [r \in Reqs |-> ""]
    /\ query = [r \in Reqs |-> EmptyDict]
    /\ r_geo = [r \in Reqs |-> None]
    /\ g = [r \in Reqs |-> None]
    /\ r_wx = [r \in Reqs |-> None]
    /\ geoCalls = [r \in Reqs |-> 0]
    /\ wxCalls = [r \in Reqs |-> 0]
    /\ steps = [r \in Reqs |-> <<>>]
    /\ response = [r \in Reqs |-> None]

\* the response leaves the boundary and the chain is over
Respond(r, resp) ==
    /\ response' = [response EXCEPT ![r] = resp]
    /\ pc' = [pc EXCEPT ![r] = "done"]

\* client.get at line 28: one GET to the geocoding provider, on the request's own client
send_geocode_dedup(r, city) ==
    IF \E o \in Reqs \ {r} : geoCalls[o] > 0 /\ query[o].city = city
    THEN UNCHANGED geoCalls
    ELSE geoCalls' = [geoCalls EXCEPT ![r] = @ + 1]

send_geocode(r, city) == geoCalls' = [geoCalls EXCEPT ![r] = @ + 1]

\* get_full_forecast(city) up to its first suspension (lines 146, 24-28)
get_full_forecast_start(r, city) ==
    /\ steps' = [steps EXCEPT ![r] = @ \o ResolveSteps]
    /\ send_geocode(r, city)
    /\ pc' = [pc EXCEPT ![r] = "geocode"]
    /\ UNCHANGED <<response, wxCalls>>

\* GET /city_forecast arrives: parameter validation, then the handler up to the first await
city_forecast(r, q) ==
    /\ pc[r] = "idle"
    /\ endpoint' = [endpoint EXCEPT ![r] = "/city_forecast"]
    /\ query' = [query EXCEPT ![r] = q]
    /\ IF "city" \notin DOMAIN q
       THEN Respond(r, ErrorResponse(RequestValidationError))
            /\ UNCHANGED <<steps, geoCalls, wxCalls>>
       ELSE IF q.city = <<>>
       THEN Respond(r, ErrorResponse(HTTPException(400, "city param required")))
            /\ UNCHANGED <<steps, geoCalls, wxCalls>>
       ELSE get_full_forecast_start(r, q.city)
    /\ UNCHANGED <<call, r_geo, g, r_wx>>

\* GET /export_csv arrives: parameter validation, then the handler up to the first await
export_csv(r, q) ==
    /\ pc[r] = "idle"
    /\ endpoint' = [endpoint EXCEPT ![r] = "/export_csv"]
    /\ query' = [query EXCEPT ![r] = q]
    /\ IF "city" \notin DOMAIN q
       THEN Respond(r, ErrorResponse(RequestValidationError))
            /\ UNCHANGED <<steps, geoCalls, wxCalls>>
       ELSE get_full_forecast_start(r, q.city)
    /\ UNCHANGED <<call, r_geo, g, r_wx>>

\* the await at line 28 completes: the rest of geocode_city, then get_full_forecast
\* up to its second suspension (lines 147-148, 43-53)
geocode_city(r, resp) ==
    /\ pc[r] = "geocode"
    /\ r_geo' = [r_geo EXCEPT ![r] = resp]
    /\ LET out == geocode_city_outcome(resp)
       IN  IF out.ok
           THEN /\ g' = [g EXCEPT ![r] = out.value]
                /\ steps' = [steps EXCEPT ![r] = @ \o FetchSteps]
                /\ wxCalls' = [wxCalls EXCEPT ![r] = @ + 1]
                /\ pc' = [pc EXCEPT ![r] = "weather"]
                /\ UNCHANGED response
           ELSE /\ Respond(r, ErrorResponse(out.exc))
                /\ UNCHANGED <<g, steps, wxCalls>>
    /\ UNCHANGED <<call, endpoint, query, r_wx, geoCalls>>

\* the await at line 53 completes: the rest of fetch_weather, the rest of
\* get_full_forecast (lines 149-182) and the rest of the handler
fetch_weather(r, resp) ==
    /\ pc[r] = "weather"
    /\ r_wx' = [r_wx EXCEPT ![r] = resp]
    /\ LET out == fetch_weather_outcome(resp)
       IN  IF out.ok
           THEN LET data == forecast_payload(g[r], out.value)
                IN  /\ steps' = [steps EXCEPT ![r] = @ \o AggregateSteps \o ComposeSteps]
                    /\ Respond(r, IF endpoint[r] = "/city_forecast"
                                  THEN OkResponse(data)
                                  ELSE export_csv_tail(query[r].city, data))
           ELSE /\ Respond(r, ErrorResponse(out.exc))
                /\ UNCHANGED steps
    /\ UNCHANGED <<call, endpoint, query, r_geo, g, geoCalls, wxCalls>>

\* the provider's answer is drawn only where a request awaits it
Next ==
    \E r \in Reqs :
        \/ \E q \in Queries : city_forecast(r, q)
        \/ \E q \in Queries : export_csv(r, q)
        \/ pc[r] = "geocode" /\ \E resp \in GeoResponses : geocode_city(r, resp)
        \/ pc[r] = "weather" /\ \E resp \in WeatherResponses(SmallForecasts) : fetch_weather(r, resp)

Spec == Init /\ [][Next]_vars

\* one request, hourly series as long as the windows of 24 and 72 hours need
NextData ==
    \/ \E q \in Queries : city_forecast(1, q)
    \/ pc[1] = "geocode" /\ \E resp \in GeoResponses : geocode_city(1, resp)
    \/ pc[1] = "weather" /\ \E resp \in WeatherResponses(LongForecasts) : fetch_weather(1, resp)

SpecData == Init /\ [][NextData]_vars

\* one helper call per behaviour; the composer follows the classifier
NextPure ==
    \/ call = NoCall /\ \E values \in SeqsUpTo(PrecipVals, MaxLen), hours \in 1..MaxWindow :
            call_compute_rolling(values, hours)
    \/ call = NoCall /\ \E values \in SeqsUpTo(PrecipVals, MaxLen) : call_compute_std(values)
    \/ call = NoCall /\ \E rolling_24 \in RollVals, temps_24 \in SeqsUpTo(TempVals, MaxRiskLen),
          winds_24 \in SeqsUpTo(WindVals, MaxRiskLen) :
            call_summarize_risks(rolling_24, temps_24, winds_24)
    \/ call_build_bilingual_advisories

SpecPure == Init /\ [][NextPure]_vars

(***************************************************************************)
(* Vocabulary of the properties                                            *)
(***************************************************************************)
Levels == {"Low", "Medium", "High"}
Rank(level) == CASE level = "Low" -> 0 [] level = "Medium" -> 1 [] level = "High" -> 2

\* the level an inclusive-lower-bound table gives x
LevelAt(x, high, medium) ==
    CASE x >= high -> "High"
      [] x >= medium /\ x < high -> "Medium"
      [] x < medium -> "Low"

Abs(x) == IF x < 0 THEN -x ELSE x

\* the multiple of unit nearest to x, the even one of two equally near
Nearest(x, unit) ==
    CHOOSE m \in {unit * k : k \in ((x \div unit) - 1)..((x \div unit) + 1)} :
        \A o \in {unit * k : k \in ((x \div unit) - 1)..((x \div unit) + 1)} :
            \/ Abs(x - m) < Abs(x - o)
            \/ Abs(x - m) = Abs(x - o) /\ (o = m \/ (m \div unit) % 2 = 0)

\* the sum (maximum) of the last k entries of v, k <= Len(v)
RECURSIVE SumLast(_, _)
SumLast(v, k) == IF k = 0 THEN 0 ELSE v[Len(v) - k + 1] + SumLast(v, k - 1)

MaxLast(v, k) ==
    CHOOSE m \in {v[i] : i \in (Len(v) - k + 1)..Len(v)} :
        \A i \in (Len(v) - k + 1)..Len(v) : v[i] <= m

Min(a, b) == IF a < b THEN a ELSE b

IsPrefix(a, b) == Len(a) <= Len(b) /\ a = SubSeq(b, 1, Len(a))

Done(r) == pc[r] = "done"
CityGiven(r) == "city" \in DOMAIN query[r] /\ query[r].city # <<>>
GeoAnswered(r) == r_geo[r] # None
WxAnswered(r) == r_wx[r] # None
GeoTimedOut(r) == GeoAnswered(r) /\ r_geo[r].kind = "timeout"
WxTimedOut(r) == WxAnswered(r) /\ r_wx[r].kind = "timeout"
GeoBadStatus(r) == GeoAnswered(r) /\ r_geo[r].kind = "response" /\ r_geo[r].status_code # 200
WxBadStatus(r) == WxAnswered(r) /\ r_wx[r].kind = "response" /\ r_wx[r].status_code # 200
GeoZeroMatches(r) ==
    /\ GeoAnswered(r) /\ r_geo[r].kind = "response" /\ r_geo[r].status_code = 200
    /\ ("results" \notin DOMAIN r_geo[r].json \/ Len(r_geo[r].json.results) = 0)
GeoSucceeded(r) ==
    /\ GeoAnswered(r) /\ r_geo[r].kind = "response" /\ r_geo[r].status_code = 200
    /\ "results" \in DOMAIN r_geo[r].json /\ Len(r_geo[r].json.results) > 0
WxSucceeded(r) == WxAnswered(r) /\ r_wx[r].kind = "response" /\ r_wx[r].status_code = 200
HasPayload(r) == response[r] # None /\ response[r].body # None
HasFailure(r) == response[r] # None /\ response[r].exc # None

(***************************************************************************)
(* Properties of the pure helpers (SpecPure)                               *)
(***************************************************************************)

\* C4: for every precipitation list v and window h >= 1, compute_rolling(v, h) is
\* 0.0 when v is empty, the sum of all of v rounded to 2 decimals when len(v) < h,
\* and the sum of the last h entries of v rounded to 2 decimals otherwise
C4_RollingSum ==
    call.fn = "compute_rolling" =>
        LET v == call.values
            h == call.hours
        IN  /\ Len(v) = 0 => call.ret = 0
            /\ Len(v) < h => call.ret = Nearest(SumLast(v, Len(v)), 10)
            /\ Len(v) >= h => call.ret = Nearest(SumLast(v, h), 10)

\* a history longer than the window, whose older part is not 0 and whose windowed
\* sum is not a multiple of 0.01
C4_Witness ==
    /\ call.fn = "compute_rolling"
    /\ Len(call.values) > call.hours
    /\ SumLast(call.values, call.hours) # SumLast(call.values, Len(call.values))
    /\ call.ret # SumLast(call.values, call.hours)
    /\ call.ret = Nearest(SumLast(call.values, call.hours), 10)

\* C5: summarize_risks classifies by inclusive lower bounds: flood High iff
\* rolling_24 >= 50, Medium iff 30 <= rolling_24 < 50, Low otherwise; heat by the
\* window's max temperature at 40 and 35; storm by the window's max wind at 15 and
\* 8; and each level never decreases when its own input increases, the other
\* inputs held fixed
C5_Thresholds ==
    call.fn = "summarize_risks" =>
        LET r24 == call.rolling_24
            t == call.temps_24
            w == call.winds_24
        IN  /\ call.ret.flood = LevelAt(r24, 50000, 30000)
            /\ Len(t) > 0 => call.ret.heat = LevelAt(MaxLast(t, Len(t)), 40000, 35000)
            /\ Len(w) > 0 => call.ret.storm = LevelAt(MaxLast(w, Len(w)), 15000, 8000)
            /\ \A r2 \in RollVals :
                    r2 >= r24 => Rank(summarize_risks(r2, t, w).flood) >= Rank(call.ret.flood)
            /\ \A hotter \in TempVals :
                    (Len(t) > 0 /\ hotter >= MaxLast(t, Len(t)))
                        => Rank(summarize_risks(r24, Append(t, hotter), w).heat) >= Rank(call.ret.heat)
            /\ \A windier \in WindVals :
                    (Len(w) > 0 /\ windier >= MaxLast(w, Len(w)))
                        => Rank(summarize_risks(r24, t, Append(w, windier)).storm) >= Rank(call.ret.storm)

\* all three inputs sit exactly on a documented edge
C5_Witness ==
    /\ call.fn = "summarize_risks"
    /\ call.rolling_24 = 50000 /\ call.ret.flood = "High"
    /\ Len(call.temps_24) > 0 /\ MaxLast(call.temps_24, Len(call.temps_24)) = 35000
    /\ call.ret.heat = "Medium"
    /\ Len(call.winds_24) > 0 /\ MaxLast(call.winds_24, Len(call.winds_24)) = 8000
    /\ call.ret.storm = "Medium"

\* the clause each language has for a dimension at a level ("" where none is authored)
HiClause(dim, level) ==
    CASE dim = "flood" /\ level = "High" -> HiFloodHigh
      [] dim = "flood" /\ level = "Medium" -> HiFloodMedium
      [] dim = "heat" /\ level = "High" -> HiHeatHigh
      [] dim = "heat" /\ level = "Medium" -> HiHeatMedium
      [] dim = "storm" /\ level = "High" -> HiStormHigh
      [] OTHER -> ""

MrClause(dim, level) ==
    CASE dim = "flood" /\ level = "High" -> MrFloodHigh
      [] dim = "flood" /\ level = "Medium" -> MrFloodMedium
      [] dim = "heat" /\ level = "High" -> MrHeatHigh
      [] dim = "heat" /\ level = "Medium" -> MrHeatMedium
      [] dim = "storm" /\ level = "High" -> MrStormHigh
      [] OTHER -> ""

Authored(clause) == clause # ""

NoLocalClause(risks) ==
    risks.flood = "Low" /\ risks.heat = "Low" /\ risks.storm \in {"Low", "Medium"}

\* C6: advisory_hi (advisory_mr) is the whole advisory_en string exactly when
\* flood is Low, heat is Low and storm is Low or Medium; otherwise it is the
\* single-space join of the Hindi (Marathi) clauses only, in the order flood,
\* heat, storm, at most one per dimension, with no English clause standing in
C6_WholeStringFallback ==
    call.fn = "build_bilingual_advisories" =>
        LET k == call.risks
            hi == SelectSeq(<<HiClause("flood", k.flood), HiClause("heat", k.heat),
                              HiClause("storm", k.storm)>>, Authored)
            mr == SelectSeq(<<MrClause("flood", k.flood), MrClause("heat", k.heat),
                              MrClause("storm", k.storm)>>, Authored)
        IN  /\ (call.ret.advisory_hi = call.ret.advisory_en) <=> NoLocalClause(k)
            /\ (call.ret.advisory_mr = call.ret.advisory_en) <=> NoLocalClause(k)
            /\ ~NoLocalClause(k) => call.ret.advisory_hi = Join(hi)
            /\ ~NoLocalClause(k) => call.ret.advisory_mr = Join(mr)
            /\ Len(call.lists.hi) <= 3 /\ Len(call.lists.mr) <= 3 /\ Len(call.lists.en) <= 3

\* both shapes happen: the whole-string fallback with an English-only storm clause
\* (flood Low, heat Low, storm Medium) is one; the other is C6_WitnessMixed
C6_Witness ==
    /\ call.fn = "build_bilingual_advisories"
    /\ call.risks.flood = "Low" /\ call.risks.heat = "Low" /\ call.risks.storm = "Medium"
    /\ call.ret.advisory_en = EnFloodLow \o " " \o EnStormMedium
    /\ call.ret.advisory_hi = call.ret.advisory_en
    /\ call.ret.advisory_mr = call.ret.advisory_en

\* flood Low, heat High, storm Medium: only the heat clause is localized, and the
\* Hindi text is that clause alone
C6_WitnessMixed ==
    /\ call.fn = "build_bilingual_advisories"
    /\ call.risks.flood = "Low" /\ call.risks.heat = "High" /\ call.risks.storm = "Medium"
    /\ call.ret.advisory_hi = HiHeatHigh

(***************************************************************************)
(* Properties of the request chains (Spec)                                 *)
(***************************************************************************)

\* C1: GET /city_forecast answers 400 when city is missing or empty, 404 when the
\* geocoding provider returns zero matches, 502 when either provider answers with a
\* non-success status, and 200 with the payload otherwise
C1_StatusContract ==
    \A r \in Reqs :
        (Done(r) /\ endpoint[r] = "/city_forecast" /\ ~GeoTimedOut(r) /\ ~WxTimedOut(r)) =>
            /\ ~CityGiven(r) => response[r].status = 400
            /\ (CityGiven(r) /\ GeoZeroMatches(r)) => response[r].status = 404
            /\ (CityGiven(r) /\ (GeoBadStatus(r) \/ WxBadStatus(r))) => response[r].status = 502
            /\ (CityGiven(r) /\ GeoSucceeded(r) /\ WxSucceeded(r)) =>
                    (response[r].status = 200 /\ HasPayload(r))

\* C2: GET /export_csv ends in the same error status as GET /city_forecast for the
\* same request and the same upstream answers, and sends nothing upstream when
\* city is empty
C2_SameErrorConditions ==
    /\ \A r \in Reqs :
            (endpoint[r] = "/export_csv" /\ "city" \in DOMAIN query[r] /\ query[r].city = <<>>) =>
                (geoCalls[r] = 0 /\ (Done(r) => response[r].status = 400))
    /\ \A a, b \in Reqs :
            (/\ Done(a) /\ endpoint[a] = "/city_forecast"
             /\ Done(b) /\ endpoint[b] = "/export_csv"
             /\ query[a] = query[b] /\ r_geo[a] = r_geo[b] /\ r_wx[a] = r_wx[b]
             /\ (response[a].status # 200 \/ response[b].status # 200))
                => response[a].status = response[b].status

\* the exception each step raises for a provider answer it rejects
GeoFailure(resp) ==
    CASE resp.kind = "timeout" -> TimeoutException
      [] resp.kind = "response" /\ resp.status_code # 200 -> HTTPException(502, "Geocoding API error")
      [] OTHER -> HTTPException(404, "Location not found")

WxFailure(resp) ==
    CASE resp.kind = "timeout" -> TimeoutException
      [] OTHER -> HTTPException(502, "Forecast API error")

AllSteps == ResolveSteps \o FetchSteps \o AggregateSteps \o ComposeSteps

\* C3: get_full_forecast runs resolve, fetch, aggregate, compose in that order;
\* the forecast call is sent only after geocoding succeeded, aggregation and
\* composition run only after the forecast call succeeded, and a failed step's
\* exception reaches the caller as raised, with no later step and no payload
C3_SequentialChain ==
    \A r \in Reqs :
        /\ IsPrefix(steps[r], AllSteps)
        /\ wxCalls[r] <= geoCalls[r]
        /\ (wxCalls[r] > 0 \/ Len(steps[r]) > Len(ResolveSteps)) => GeoSucceeded(r)
        /\ Len(steps[r]) > Len(ResolveSteps \o FetchSteps) => (WxSucceeded(r) /\ steps[r] = AllSteps)
        /\ (GeoAnswered(r) /\ ~GeoSucceeded(r)) =>
                /\ Done(r) /\ response[r].exc = GeoFailure(r_geo[r]) /\ ~HasPayload(r)
                /\ steps[r] = ResolveSteps /\ wxCalls[r] = 0
        /\ (WxAnswered(r) /\ ~WxSucceeded(r)) =>
                /\ Done(r) /\ response[r].exc = WxFailure(r_wx[r]) /\ ~HasPayload(r)
                /\ steps[r] = ResolveSteps \o FetchSteps
        /\ HasPayload(r) => (GeoSucceeded(r) /\ WxSucceeded(r) /\ steps[r] = AllSteps)

\* one chain ran all four steps while another stopped at a failed forecast call
C3_Witness ==
    \E a, b \in Reqs :
        /\ Done(a) /\ HasPayload(a) /\ steps[a] = AllSteps
        /\ Done(b) /\ WxBadStatus(b) /\ response[b].status = 502
        /\ steps[b] = ResolveSteps \o FetchSteps

\* C7: each request sends its own geocoding call and its own forecast call (never
\* shared with, or saved by, another request for the same city), and its response
\* is a function of its own route, its own query and the answers to its own calls
C7_IndependentChains ==
    /\ \A r \in Reqs :
            /\ geoCalls[r] = (IF Len(steps[r]) >= Len(ResolveSteps) THEN 1 ELSE 0)
            /\ wxCalls[r] = (IF Len(steps[r]) >= Len(ResolveSteps \o FetchSteps) THEN 1 ELSE 0)
            /\ GeoAnswered(r) => geoCalls[r] = 1
            /\ WxAnswered(r) => wxCalls[r] = 1
            /\ (Done(r) /\ response[r].status = 200) => (geoCalls[r] = 1 /\ wxCalls[r] = 1)
    /\ \A a, b \in Reqs :
            (/\ Done(a) /\ Done(b) /\ endpoint[a] = endpoint[b] /\ query[a] = query[b]
             /\ GeoAnswered(a) = GeoAnswered(b) /\ (GeoAnswered(a) => r_geo[a] = r_geo[b])
             /\ WxAnswered(a) = WxAnswered(b) /\ (WxAnswered(a) => r_wx[a] = r_wx[b]))
                => response[a] = response[b]

\* two requests for the same city, each with its own two calls, answered differently
C7_Witness ==
    \E a, b \in Reqs :
        /\ a # b /\ CityGiven(a) /\ query[a] = query[b] /\ endpoint[a] = endpoint[b]
        /\ Done(a) /\ response[a].status = 200 /\ geoCalls[a] = 1 /\ wxCalls[a] = 1
        /\ Done(b) /\ response[b].status = 502 /\ geoCalls[b] = 1 /\ wxCalls[b] = 1

\* C9 as claimed: a timeout of either call ends like a provider non-success
\* status (the 502 HTTPException), never in a successful response, and every
\* finished chain holds exactly one of a payload and a failure
C9_TimeoutIsUpstreamError ==
    \A r \in Reqs :
        Done(r) =>
            /\ (GeoTimedOut(r) \/ WxTimedOut(r)) =>
                    /\ response[r].status = 502
                    /\ response[r].exc.type = "HTTPException"
                    /\ ~HasPayload(r)
            /\ HasPayload(r) # HasFailure(r)

\* C9 amended: a timeout of either call ends the chain in a failure, the
\* unhandled httpx timeout exception answered 500 at the boundary, never in a
\* successful response, and every finished chain holds exactly one of a payload
\* and a failure
C9_TimeoutIsFailure ==
    \A r \in Reqs :
        Done(r) =>
            /\ (GeoTimedOut(r) \/ WxTimedOut(r)) =>
                    /\ response[r].status = 500
                    /\ response[r].exc = TimeoutException
                    /\ ~HasPayload(r)
            /\ HasPayload(r) # HasFailure(r)

\* the forecast call timed out after a successful resolution
C9_Witness ==
    \E r \in Reqs :
        Done(r) /\ GeoSucceeded(r) /\ WxTimedOut(r) /\ response[r].status = 500 /\ HasFailure(r)

(***************************************************************************)
(* Properties of the payload over full-length series (SpecData)            *)
(***************************************************************************)
\* the arrays the forecast provider sent (a missing key counts as empty)
Sent(r, key) == Get(Get(r_wx[r].json, "hourly", EmptyDict), key, <<>>)

\* C8: whenever both upstream calls succeed, whatever the lengths of the hourly
\* arrays, the response is a payload whose flood, heat and storm are levels; an
\* empty temperature window gives max_temp = -999 and heat Low, an empty wind
\* window gives max_wind = 0.0 and storm Low, and empty precipitation gives
\* rolling_24 = rolling_72 = precip_std = 0.0 and flood Low
C8_PartialDataNeverFails ==
    \A r \in Reqs :
        (Done(r) /\ GeoSucceeded(r) /\ WxSucceeded(r)) =>
            /\ response[r].status = 200 /\ HasPayload(r) /\ ~HasFailure(r)
            /\ LET d == response[r].body
               IN  /\ d.risk.flood \in Levels /\ d.risk.heat \in Levels /\ d.risk.storm \in Levels
                   /\ Len(Sent(r, "temperature_2m")) = 0 =>
                            (d.risk.max_temp = -999000 /\ d.risk.heat = "Low")
                   /\ Len(Sent(r, "windspeed_10m")) = 0 =>
                            (d.risk.max_wind = 0 /\ d.risk.storm = "Low")
                   /\ Len(Sent(r, "precipitation")) = 0 =>
                            /\ d.rolling_24 = 0 /\ d.rolling_72 = 0
                            /\ d.precip_std.tag = "float" /\ d.precip_std.of = 0
                            /\ d.risk.flood = "Low"

\* no temperature array at all beside a short (under 24 hours) precipitation array
C8_Witness ==
    \E r \in Reqs :
        /\ Done(r) /\ HasPayload(r)
        /\ Len(response[r].body.temperature) = 0
        /\ Len(response[r].body.precip) \in 1..23
        /\ response[r].body.risk.max_temp = -999000
        /\ response[r].body.risk.heat = "Low"
        /\ response[r].body.risk.flood = "High"

\* C10: in the payload, risk.flood is the level of the payload's own rolling_24,
\* which is the rounded sum of the last min(24, n) precipitation entries;
\* risk.heat and risk.storm are the levels of the maximum over the last
\* min(24, n) temperature and wind entries only; and rolling_72 is the rounded
\* sum of the whole precipitation series whenever n <= 72
C10_PayloadWindows ==
    \A r \in Reqs :
        (Done(r) /\ HasPayload(r)) =>
            LET d == response[r].body
                n == Len(d.precip)
                nt == Len(d.temperature)
                nw == Len(d.wind)
            IN  /\ d.rolling_24 = Nearest(SumLast(d.precip, Min(24, n)), 10)
                /\ d.risk.flood = LevelAt(d.rolling_24, 50000, 30000)
                /\ nt > 0 => d.risk.heat = LevelAt(MaxLast(d.temperature, Min(24, nt)), 40000, 35000)
                /\ nw > 0 => d.risk.storm = LevelAt(MaxLast(d.wind, Min(24, nw)), 15000, 8000)
                /\ n <= 72 => d.rolling_72 = Nearest(SumLast(d.precip, n), 10)
                /\ n > 72 => d.rolling_72 = Nearest(SumLast(d.precip, 72), 10)

\* the end-to-end scenario: 30 hours, 55 mm in the last 24 and 5 mm before, max
\* temperature 41 in the window, wind 5 throughout
C10_Witness ==
    \E r \in Reqs :
        /\ Done(r) /\ HasPayload(r)
        /\ Len(response[r].body.precip) = 30
        /\ SumLast(response[r].body.precip, 24) = 55000
        /\ SumLast(response[r].body.precip, 30) = 60000
        /\ MaxLast(response[r].body.temperature, 30) = 41000
        /\ MaxLast(response[r].body.wind, 30) = 5000
        /\ response[r].body.risk.flood = "High"
        /\ response[r].body.risk.heat = "High"
        /\ response[r].body.risk.storm = "Low"
        /\ response[r].body.rolling_24 = 55000
        /\ response[r].body.rolling_72 = 60000

\* hours older than the last 24 hold the extremes and the levels ignore them; the
\* windowed rainfall 49.996 is rounded to 50.0 before it is classified
C10_WitnessOldHours ==
    \E r \in Reqs :
        /\ Done(r) /\ HasPayload(r)
        /\ Len(response[r].body.temperature) > 24
        /\ MaxLast(response[r].body.temperature, Len(response[r].body.temperature)) = 41000
        /\ response[r].body.risk.heat = "Medium"
        /\ MaxLast(response[r].body.wind, Len(response[r].body.wind)) = 16000
        /\ response[r].body.risk.storm = "Low"
        /\ SumLast(response[r].body.precip, 24) = 49996
        /\ response[r].body.risk.flood = "High"

====
